---- MODULE Spec2Model ----
(***************************************************************************)
(* Model of the traffic-policing daemon: the rule engine                   *)
(* (safe-traffic-daemon/src/rules.rs) and the firewall controller          *)
(* (safe-traffic-daemon/src/controller.rs).                                *)
(*                                                                         *)
(* Time is counted in clock units, Res units to the second, so that the    *)
(* truncations of chrono (num_seconds, timestamp) are modelled.  Buffer    *)
(* slot p of the source (0-based) is element p + 1 of the TLA+ sequence.   *)
(***************************************************************************)
EXTENDS Integers, Sequences, FiniteSets, TLC

\* ------------------------------------------------------------ constants
MAX_WINDOW_BUFFER == 60
\* clock units per second
Res == 2
\* Option::None of seconds / burst / handle
None == -1
\* the id returned with an error
NoId == <<>>
NoRule == [id |-> NoId]
\* a key that a map does not hold
Absent == [absent |-> TRUE]

\* ------------------------------------------------------------ bounds
MaxTime == 8
MaxChan == 2
MaxHandle == 3
IPs == {1, 2}
\* the callers of the controller besides the engine
Callers == {"a", "b"}
\* the addresses an operator may add to the global exclusion set at run time
Excludable == {1, 2}
Hooks == {"Input", "Output"}
TrafficStats(rx, tx) == [rx_delta |-> rx, tx_delta |-> tx]
\* what the monitor reports: address 1 alternates between inbound and outbound
\* traffic, address 2 is a steady inbound sender
Traffic(ip) == IF ip = 1 THEN {TrafficStats(5, 0), TrafficStats(0, 5)}
               ELSE {TrafficStats(5, 0)}

\* ------------------------------------------------------------ configuration
Ban(seconds) == [kind |-> "Ban", kbps |-> None, burst |-> None, seconds |-> seconds]
RateLimit(kbps, burst, seconds) ==
    [kind |-> "RateLimit", kbps |-> kbps, burst |-> burst, seconds |-> seconds]
Rule(w, thr, action, excl) ==
    [window_secs |-> w, threshold_bps |-> thr, action |-> action, exclude |-> excl]

\* The rule lists the engine is run with: the single-rule scenario of the
\* specification, two bans of different durations, an indefinite and a finite
\* ban, a timed limit beside a ban, and a rule with an exclusion set.
Configs ==
    { << Rule(1, 2, Ban(1), {}) >>,
      << Rule(1, 2, Ban(2), {}), Rule(2, 1, Ban(1), {}) >>,
      << Rule(1, 2, Ban(1), {}), Rule(1, 2, Ban(None), {}) >>,
      << Rule(1, 2, RateLimit(100, None, 1), {}), Rule(2, 2, Ban(2), {1}) >>,
      << Rule(1, 2, RateLimit(100, 7, None), {}), Rule(1, 2, RateLimit(200, None, 1), {}) >> }

VARIABLES
    now,            \* wall clock (Utc::now()), in clock units
    hook,           \* Firewall.hook
    rules,          \* RuleEngine.rules: the configured rule list
    stats,          \* RuleEngine.stats: address -> TrafficStats deltas, or Absent
    windows,        \* RuleEngine.windows: address -> Window, or Absent
    handles,        \* RuleEngine.handles: address -> list of rule ids
    fw_rules,       \* Firewall.rules: the registry, id -> FirewallRule
    global_exclude, \* Firewall.global_exclude
    kernel,         \* handles of the rules present in the kernel chain
    next_handle,    \* the handle the kernel gives to the next rule
    state,          \* SignalController.state (TRUE = Running)
    stop_flag,      \* SignalController.stop_flag
    control_rx,     \* the control channel: the signals sent, in order
    received,       \* how many of them the loop has received
    pc,             \* position of RuleEngine::start: "select", "eval", "exited"
    entries,        \* check_and_apply: snapshot (address -> Window copy) not yet evaluated
    timer,          \* interval.tick() is ready
    hosts,          \* the addresses the monitor reports in this run
    calls,          \* the controller calls in flight of the concurrent callers
    tables,         \* the tables and chains present in the kernel
    nft_available,  \* Firewall.nft_available
    main,           \* position of main: "new", "run", "cleanup", "delete", "drain",
                    \* "done" (returned Ok), "failed" (returned Err)
    pool,           \* the executor pool: "open" or "drained"
    log             \* controller calls and executor commands of the last step

vars == << now, hook, rules, stats, windows, handles, fw_rules, global_exclude,
           kernel, next_handle, state, stop_flag, control_rx, received, pc, entries,
           timer,
           hosts, calls, tables, nft_available, main, pool, log >>

\* ------------------------------------------------------------ helpers
Min(a, b) == IF a < b THEN a ELSE b
Seconds(s) == s * Res
\* chrono::Duration::num_seconds: whole seconds, truncated
num_seconds(d) == d \div Res
\* DateTime::timestamp: whole seconds since the epoch
timestamp(t) == t \div Res
Keys(f) == DOMAIN f
Insert(f, k, v) == [x \in (DOMAIN f) \cup {k} |-> IF x = k THEN v ELSE f[x]]
Remove(f, k) == [x \in (DOMAIN f) \ {k} |-> f[x]]
Empty == [x \in {} |-> NoRule]

\* ------------------------------------------------------------ executor
\* The executor pool and the kernel behind it.  A command is logged when it is
\* sent; the kernel applies it when the executor accepts it.
ExecOutcomes == {"ok", "err"}
\* what the executor may print for an accepted `add rule`: the echo of the rule
\* with its handle, nothing, an object that is no Add, an Add without a handle
Outputs(h) == { << [tag |-> "Add", handle |-> h] >>, << >>,
                << [tag |-> "Other", handle |-> h] >>,
                << [tag |-> "Add", handle |-> None] >> }
\* a command as the log shows it: what was sent and whether it was accepted
Sent(cmd, ack) == [op |-> cmd.op, ver |-> cmd.ver, ip |-> cmd.ip, dir |-> cmd.dir,
                   what |-> cmd.what,
                   kbps |-> cmd.kbps, burst |-> cmd.burst, handle |-> cmd.handle,
                   ack |-> ack]
\* the parsed output of the last command, as the log shows it
Parsed(out) == [op |-> "output", out |-> out]

\* NftExecutor::execute of an `add rule`, and parse_output of what it returns
execute(c, cmd) ==
    { [c |-> [c EXCEPT !.kernel = @ \cup {c.next_handle},
                       !.next_handle = @ + 1,
                       !.log = @ \o << Sent(cmd, TRUE), Parsed(out) >>],
       ok |-> TRUE,
       out |-> out] : out \in Outputs(c.next_handle) }
    \cup
    { [c |-> [c EXCEPT !.log = Append(@, Sent(cmd, FALSE))], ok |-> FALSE,
       out |-> << >>] }

\* NftExecutor::execute_batch of `add rule` commands: all of them are applied,
\* each under a handle of its own, or none is
execute_rules(c, cmds) ==
    { IF o = "ok"
      THEN [c |-> [c EXCEPT !.kernel = @ \cup (c.next_handle..(c.next_handle + Len(cmds) - 1)),
                            !.next_handle = @ + Len(cmds),
                            !.log = @ \o [i \in 1..Len(cmds) |-> Sent(cmds[i], TRUE)]],
            ok |-> TRUE]
      ELSE [c |-> [c EXCEPT !.log = @ \o [i \in 1..Len(cmds) |-> Sent(cmds[i], FALSE)]],
            ok |-> FALSE]
      : o \in ExecOutcomes }

\* NftExecutor::input of a `delete rule ... handle h`, or of a `flush chain`,
\* which takes every rule out of the chain
input(c, cmd) ==
    { IF o = "ok"
      THEN [c |-> [c EXCEPT !.kernel = IF cmd.op = "delete rule" THEN @ \ {cmd.handle}
                                       ELSE {},
                            !.log = Append(@, Sent(cmd, TRUE))],
            ok |-> TRUE]
      ELSE [c |-> [c EXCEPT !.log = Append(@, Sent(cmd, FALSE))], ok |-> FALSE]
      : o \in ExecOutcomes }

\* ------------------------------------------------------------ controller
Ret(c, ok, id) == [c |-> c, ok |-> ok, id |-> id]

FirewallRule(id, ip, rule_type, created_at, handle) ==
    [id |-> id, ip |-> ip, rule_type |-> rule_type, created_at |-> created_at,
     handle |-> handle]

direction(h) == IF h = "Input" THEN "saddr" ELSE "daddr"

\* the addresses that are IpAddr::V6
V6 == {2}
ip_version(ip) == IF ip \in V6 THEN "ip6" ELSE "ip"

\* the burst of a limit: the given one, or min(kbps, 1024) / 10
burst_of(kbps, burst) == IF burst # None THEN burst ELSE Min(kbps, 1024) \div 10

\* the handle of the first parsed object, None when there is none
first_handle(out) ==
    IF Len(out) = 0 THEN None
    ELSE IF out[1].tag = "Add" THEN out[1].handle ELSE None

create_ban_rule(c, ip) ==
    execute(c, [op |-> "add rule", ver |-> ip_version(ip), ip |-> ip,
                dir |-> direction(c.hook), what |-> "drop",
                kbps |-> None, burst |-> None, handle |-> None])

create_limit_rule(c, ip, kbps, burst) ==
    execute(c, [op |-> "add rule", ver |-> ip_version(ip), ip |-> ip,
                dir |-> direction(c.hook), what |-> "limit",
                kbps |-> kbps, burst |-> burst, handle |-> None])

remove_rule_by_handle(c, handle) ==
    input(c, [op |-> "delete rule", ver |-> None, ip |-> None, dir |-> None, what |-> None,
              kbps |-> None, burst |-> None, handle |-> handle])

\* a registration that trusts every accepted command, whatever it printed
Register_any_output(r, rule_id, rule) ==
    IF r.ok
    THEN Ret([r.c EXCEPT !.rules = Insert(@, rule_id,
                             [rule EXCEPT !.handle = first_handle(r.out)])],
             TRUE, rule_id)
    ELSE Ret(r.c, FALSE, NoId)

\* registers `rule` when the executor acknowledged a handle, else returns the error
Register(r, rule_id, rule) ==
    IF r.ok /\ first_handle(r.out) # None
    THEN Ret([r.c EXCEPT !.rules = Insert(@, rule_id,
                             [rule EXCEPT !.handle = first_handle(r.out)])],
             TRUE, rule_id)
    ELSE Ret(r.c, FALSE, NoId)

ban_id(ip, until) == << "ban", ip, timestamp(until) >>
infinity_ban_id(ip) == << "ban", ip >>
limit_id(ip, kbps, until) == << "limit", ip, kbps, timestamp(until) >>
infinity_limit_id(ip, kbps) == << "limit", ip, kbps >>

\* a duplicate check that looks the entry up by the id of the new rule
ban_duplicates_by_id(reg, ip, seconds, t) ==
    { id \in { ban_id(ip, t + Seconds(seconds)) } \cap Keys(reg) :
        /\ reg[id].rule_type.kind = "Ban"
        /\ reg[id].created_at + Seconds(seconds) > t }

\* the Ban entries of `ip` that ban(ip, Some(seconds)) takes as still running
ban_duplicates(reg, ip, seconds, t) ==
    { id \in Keys(reg) :
        /\ reg[id].ip = ip
        /\ reg[id].rule_type.kind = "Ban"
        /\ reg[id].created_at + Seconds(seconds) > t }

\* a duplicate check of limit that does not look at the seconds of the entry
limit_duplicates_any_seconds(reg, ip, kbps, seconds, t) ==
    { id \in Keys(reg) :
        /\ reg[id].ip = ip
        /\ reg[id].rule_type.kind = "RateLimit"
        /\ reg[id].created_at + Seconds(seconds) > t
        /\ reg[id].rule_type.kbps = kbps }

\* the RateLimit entries of `ip` that limit(ip, kbps, _, Some(seconds)) takes as
\* still running
limit_duplicates(reg, ip, kbps, seconds, t) ==
    { id \in Keys(reg) :
        /\ reg[id].ip = ip
        /\ reg[id].rule_type.kind = "RateLimit"
        /\ reg[id].created_at + Seconds(seconds) > t
        /\ reg[id].rule_type.kbps = kbps
        /\ reg[id].rule_type.seconds = seconds }

infinity_ban(c, ip, t) ==
    LET rule_id == infinity_ban_id(ip)
    IN  IF rule_id \in Keys(c.rules)
        THEN { Ret(c, TRUE, rule_id) }
        ELSE { Register(r, rule_id, FirewallRule(rule_id, ip, Ban(None), t, None))
               : r \in create_ban_rule(c, ip) }

ban(c, ip, seconds, t) ==
    IF seconds = None THEN infinity_ban(c, ip, t)
    ELSE LET rule_id == ban_id(ip, t + Seconds(seconds))
             dups == ban_duplicates(c.rules, ip, seconds, t)
         IN  IF dups # {}
             THEN { Ret(c, TRUE, id) : id \in dups }
             ELSE { Register(r, rule_id, FirewallRule(rule_id, ip, Ban(seconds), t, None))
                    : r \in create_ban_rule(c, ip) }

infinity_limit(c, ip, kbps, burst, t) ==
    LET rule_id == infinity_limit_id(ip, kbps)
        b == burst_of(kbps, burst)
    IN  IF /\ rule_id \in Keys(c.rules)
           /\ c.rules[rule_id].rule_type.kind = "RateLimit"
           /\ c.rules[rule_id].rule_type.kbps = kbps
        THEN { Ret(c, TRUE, rule_id) }
        ELSE { Register(r, rule_id,
                        FirewallRule(rule_id, ip, RateLimit(kbps, b, None), t, None))
               : r \in create_limit_rule(c, ip, kbps, b) }

limit(c, ip, kbps, burst, seconds, t) ==
    IF seconds = None THEN infinity_limit(c, ip, kbps, burst, t)
    ELSE LET rule_id == limit_id(ip, kbps, t + Seconds(seconds))
             b == burst_of(kbps, burst)
             dups == limit_duplicates(c.rules, ip, kbps, seconds, t)
         IN  IF dups # {}
             THEN { Ret(c, TRUE, id) : id \in dups }
             ELSE { Register(r, rule_id,
                             FirewallRule(rule_id, ip, RateLimit(kbps, b, seconds), t, None))
                    : r \in create_limit_rule(c, ip, kbps, b) }

\* the handle batch_ban stores: the text ban_<ip>_<timestamp>, which is no
\* handle of the kernel; a number below None stands for it
batch_handle(ip, t) == 0 - (2 + 2 * timestamp(t) + (ip - 1))

batch_ban(c, ips, seconds, t) ==
    LET n == Len(ips)
        rule_ids == [i \in 1..n |-> ban_id(ips[i], t + Seconds(seconds))]
        commands == [i \in 1..n |->
                       [op |-> "add rule", ver |-> ip_version(ips[i]), ip |-> ips[i],
                        dir |-> "saddr", what |-> "drop", kbps |-> None, burst |-> None,
                        handle |-> None]]
        new == { rule_ids[i] : i \in 1..n }
        last(id) == CHOOSE i \in 1..n : /\ rule_ids[i] = id
                                        /\ \A j \in 1..n : rule_ids[j] = id => j <= i
        inserted(reg) ==
            [id \in Keys(reg) \cup new |->
               IF id \in new
               THEN FirewallRule(id, ips[last(id)], Ban(seconds), t,
                                 batch_handle(ips[last(id)], t))
               ELSE reg[id]]
    IN  { IF r.ok
          THEN Ret([r.c EXCEPT !.rules = inserted(@)], TRUE, rule_ids)
          ELSE Ret(r.c, FALSE, NoId)
          : r \in execute_rules(c, commands) }

\* an expiry test that is one second late
is_expiration_late(reg, rule_id, seconds, t) ==
    IF rule_id \in Keys(reg)
    THEN t > reg[rule_id].created_at + Seconds(seconds + 1)
    ELSE FALSE

is_expiration(reg, rule_id, seconds, t) ==
    IF rule_id \in Keys(reg)
    THEN t > reg[rule_id].created_at + Seconds(seconds)
    ELSE FALSE

\* an unblock that deletes the kernel rule and keeps the registry entry
unblock_keeps(c, id) ==
    IF id \notin Keys(c.rules) \/ c.rules[id].handle = None
    THEN { Ret(c, FALSE, id) }
    ELSE { Ret(r.c, r.ok, id) : r \in remove_rule_by_handle(c, c.rules[id].handle) }

\* an unblock that takes an unknown id as already removed
unblock_idempotent(c, id) ==
    IF id \notin Keys(c.rules)
    THEN { Ret(c, TRUE, id) }
    ELSE IF c.rules[id].handle = None
    THEN { Ret(c, FALSE, id) }
    ELSE { IF r.ok
           THEN Ret([r.c EXCEPT !.rules = Remove(@, id)], id \in Keys(r.c.rules), id)
           ELSE Ret(r.c, FALSE, id)
           : r \in remove_rule_by_handle(c, c.rules[id].handle) }

unblock(c, id) ==
    IF id \notin Keys(c.rules) \/ c.rules[id].handle = None
    THEN { Ret(c, FALSE, id) }
    ELSE { IF r.ok
           THEN Ret([r.c EXCEPT !.rules = Remove(@, id)], id \in Keys(r.c.rules), id)
           ELSE Ret(r.c, FALSE, id)
           : r \in remove_rule_by_handle(c, c.rules[id].handle) }

\* an exclusion test that excludes nobody
is_excluded_nobody(excl, ip) == FALSE

\* Firewall::is_excluded: membership in the global exclusion set
is_excluded(excl, ip) == ip \in excl

\* Rule::is_excluded: membership in the exclusion set of the rule
rule_is_excluded(rule, ip) == ip \in rule.exclude

\* A controller call as the log shows it: the call, the commands it sends, and
\* what it returns; `same` tells whether it left the registry as it was.
Logged(c, ev) == [c EXCEPT !.log = Append(@, ev)]
Returned(c, r) ==
    [r EXCEPT !.c.log = Append(@, [op |-> "ret", ok |-> r.ok, id |-> r.id,
                                   same |-> (r.c.rules = c.rules)])]

call_ban(c, ip, seconds, t) ==
    { Returned(c, r)
      : r \in ban(Logged(c, [op |-> "ban", ip |-> ip, seconds |-> seconds]),
                  ip, seconds, t) }

call_limit(c, ip, kbps, burst, seconds, t) ==
    { Returned(c, r)
      : r \in limit(Logged(c, [op |-> "limit", ip |-> ip, kbps |-> kbps, burst |-> burst,
                               seconds |-> seconds]),
                    ip, kbps, burst, seconds, t) }

call_batch_ban(c, ips, seconds, t) ==
    { Returned(c, r)
      : r \in batch_ban(Logged(c, [op |-> "batch_ban", ips |-> ips, seconds |-> seconds]),
                        ips, seconds, t) }

call_unblock(c, id) ==
    { Returned(c, r)
      : r \in unblock(Logged(c, [op |-> "unblock", id |-> id,
                                 rule |-> IF id \in Keys(c.rules) THEN c.rules[id]
                                          ELSE NoRule]),
                      id) }

\* ------------------------------------------------------------ rule engine
\* a new window that counts as a second old already
NewWindow_stale(t) ==
    [buffer |-> [i \in 1..MAX_WINDOW_BUFFER |-> 0], pos |-> 0, last_ts |-> t - Res]

\* the window of an address seen for the first time
NewWindow(t) ==
    [buffer |-> [i \in 1..MAX_WINDOW_BUFFER |-> 0], pos |-> 0, last_ts |-> t]

\* the sample of the hook's direction
bps_of(h, st) == IF h = "Input" THEN st.rx_delta ELSE st.tx_delta

\* check_and_apply, snapshot phase, one address: get or create the window and
\* advance it when at least one whole second has passed
\* a window that moves one slot for every second that has passed
advance_by_elapsed(win, bps, t) ==
    IF num_seconds(t - win.last_ts) >= 1
    THEN LET pos == (win.pos + num_seconds(t - win.last_ts)) % Len(win.buffer)
         IN  [buffer |-> [win.buffer EXCEPT ![pos + 1] = bps], pos |-> pos, last_ts |-> t]
    ELSE win

advance(win, bps, t) ==
    IF num_seconds(t - win.last_ts) >= 1
    THEN LET pos == (win.pos + 1) % Len(win.buffer)
         IN  [buffer |-> [win.buffer EXCEPT ![pos + 1] = bps], pos |-> pos, last_ts |-> t]
    ELSE win

snapshot(wins, sts, h, t) ==
    [ip \in IPs |->
        IF sts[ip] = Absent THEN wins[ip]
        ELSE advance(IF wins[ip] = Absent THEN NewWindow(t) ELSE wins[ip],
                     bps_of(h, sts[ip]), t)]

\* the slot the sum starts at: skip((pos + len - window_size) % len)
window_start(pos, len, window_size) == (pos + len - window_size) % len

RECURSIVE take_sum(_, _, _)
\* buffer.iter().cycle().skip(start).take(n).sum()
take_sum(buffer, start, n) ==
    IF n = 0 THEN 0
    ELSE buffer[(start % Len(buffer)) + 1] + take_sum(buffer, start + 1, n - 1)

avg_bps(win, window_secs) ==
    take_sum(win.buffer, window_start(win.pos, Len(win.buffer), window_secs), window_secs)
        \div window_secs

RECURSIVE sweep(_, _, _, _)
\* clean_expiration_rules: the loop over the ids of the address, from index i.
\* st = [c, ids, ok]; the list swept is the clone taken when the loop starts.
sweep(st, seconds, i, t) ==
    IF i > Len(st.ids) THEN { st }
    ELSE IF seconds # None /\ is_expiration(st.c.rules, st.ids[i], seconds, t)
         THEN UNION { IF r.ok
                      THEN sweep([st EXCEPT !.c = r.c], seconds, i + 1, t)
                      ELSE { [st EXCEPT !.c = r.c, !.ok = FALSE] }
                      : r \in call_unblock(st.c, st.ids[i]) }
         ELSE sweep(st, seconds, i + 1, t)

clean_expiration_rules(st, rule, t) == sweep(st, rule.action.seconds, 1, t)

\* an action that keeps the id list free of repetitions
apply_action_once(st, ip, action, t) ==
    { IF r.ok
      THEN [st EXCEPT !.c = r.c,
                      !.ids = IF \E i \in 1..Len(@) : @[i] = r.id THEN @
                              ELSE Append(@, r.id)]
      ELSE [st EXCEPT !.c = r.c, !.ok = FALSE]
      : r \in IF action.kind = "Ban"
              THEN call_ban(st.c, ip, action.seconds, t)
              ELSE call_limit(st.c, ip, action.kbps, action.burst, action.seconds, t) }

\* the action of a rule whose threshold is crossed: the controller call and the
\* push of the returned id
apply_action(st, ip, action, t) ==
    { IF r.ok
      THEN [st EXCEPT !.c = r.c, !.ids = Append(@, r.id)]
      ELSE [st EXCEPT !.c = r.c, !.ok = FALSE]
      : r \in IF action.kind = "Ban"
              THEN call_ban(st.c, ip, action.seconds, t)
              ELSE call_limit(st.c, ip, action.kbps, action.burst, action.seconds, t) }

\* a threshold test that fires at the threshold too
exceeds_or_equals(avg, threshold_bps) == avg >= threshold_bps

\* `if avg_bps > rule.threshold_bps`
exceeds(avg, threshold_bps) == avg > threshold_bps

\* one rule of the per-address task
eval_rule(st, ip, win, rule, t) ==
    IF rule_is_excluded(rule, ip) THEN { st }
    ELSE LET acted == IF exceeds(avg_bps(win, rule.window_secs), rule.threshold_bps)
                      THEN apply_action(st, ip, rule.action, t)
                      ELSE { st }
         IN  UNION { IF a.ok THEN clean_expiration_rules(a, rule, t) ELSE { a }
                     : a \in acted }

RECURSIVE eval_rules(_, _, _, _, _, _)
\* the per-address task: `for rule in &self.rules`, an error ends it
eval_rules(st, ip, win, rs, i, t) ==
    IF i > Len(rs) THEN { st }
    ELSE UNION { IF a.ok THEN eval_rules(a, ip, win, rs, i + 1, t) ELSE { a }
                 : a \in eval_rule(st, ip, win, rs[i], t) }

\* ------------------------------------------------------------ actions
orchestrator == << tables, nft_available, main, pool >>
setup == << hook, rules, hosts, orchestrator >>
signals == << state, stop_flag, control_rx, received >>
registry == << fw_rules, kernel, next_handle >>

Controller == [rules |-> fw_rules, kernel |-> kernel, next_handle |-> next_handle,
               hook |-> hook, log |-> << >>]

NoEntries == [ip \in IPs |-> Absent]
Pending == { ip \in IPs : entries[ip] # Absent }
NoCalls == [p \in Callers |-> [pc |-> "idle"]]

\* the process state at the start of main
Started ==
    /\ now = 0
    /\ stats = [ip \in IPs |-> Absent]
    /\ windows = [ip \in IPs |-> Absent]
    /\ handles = [ip \in IPs |-> << >>]
    /\ fw_rules = Empty
    /\ global_exclude = {}
    /\ kernel = {}
    /\ next_handle = 1
    /\ state = TRUE
    /\ stop_flag = FALSE
    /\ control_rx = << >>
    /\ received = 0
    /\ pc = "select"
    /\ entries = NoEntries
    /\ timer = TRUE
    /\ calls = NoCalls
    /\ pool = "open"
    /\ log = << >>

\* the state after construction, the run's rule list, hook and hosts left open
Constructed ==
    /\ Started
    /\ tables = {"traffic_filter", "traffic_input"}
    /\ nft_available = TRUE
    /\ main = "run"

Init ==
    /\ Constructed
    /\ rules \in Configs
    /\ hook \in IF Len(rules) = 1 THEN Hooks ELSE {"Input"}
    /\ hosts = {1}

\* the wall clock advances; the interval timer becomes ready
Clock ==
    /\ now < MaxTime
    /\ now' = now + 1
    /\ timer' = TRUE
    /\ log' = << >>
    /\ UNCHANGED << setup, signals, registry, stats, windows, handles,
                    global_exclude, pc, entries, calls >>

\* the traffic monitor writes the deltas of an address into the shared map
Monitor(ip, ts) ==
    /\ ip \in hosts
    /\ stats[ip] # ts
    /\ stats' = [stats EXCEPT ![ip] = ts]
    /\ log' = << >>
    /\ UNCHANGED << now, setup, signals, registry, windows, handles,
                    global_exclude, pc, entries, timer, calls >>

\* Firewall::add_exclude
add_exclude(ip) ==
    /\ ip \notin global_exclude
    /\ global_exclude' = global_exclude \cup {ip}
    /\ log' = << >>
    /\ UNCHANGED << now, setup, signals, registry, stats, windows, handles,
                    pc, entries, timer, calls >>

\* a timer branch without precondition
tick_always(running) == TRUE

\* the precondition of the timer branch of select!
tick_enabled(running) == running

\* RuleEngine::start, the timer branch: check_and_apply begins with the snapshot
\* phase; with nothing in the counter map it is over at once
Tick ==
    /\ pc = "select"
    /\ tick_enabled(state)
    /\ timer
    /\ timer' = FALSE
    /\ IF stop_flag
       THEN /\ pc' = "exited"
            /\ log' = << >>
            /\ UNCHANGED << windows, entries >>
       ELSE /\ windows' = snapshot(windows, stats, hook, now)
            /\ entries' = [ip \in IPs |-> IF stats[ip] = Absent THEN Absent
                                          ELSE windows'[ip]]
            /\ pc' = IF \E ip \in IPs : stats[ip] # Absent THEN "eval" ELSE "select"
            /\ log' = << [op |-> "check_and_apply"] >>
    /\ UNCHANGED << now, setup, signals, registry, stats, handles,
                    global_exclude, calls >>

\* a loop that propagates the error of check_and_apply with `?`
after_check_exits(ok) == IF ok THEN "select" ELSE "exited"

\* RuleEngine::start, after check_and_apply: Ok or Err (logged), the loop goes on
after_check(ok) == "select"

\* check_and_apply, evaluation phase: the task of one address of the snapshot.
\* A globally excluded address is filtered out; an error of the task ends the tick.
Eval(ip) ==
    /\ pc = "eval"
    /\ entries[ip] # Absent
    /\ IF is_excluded(global_exclude, ip)
       THEN /\ entries' = [entries EXCEPT ![ip] = Absent]
            /\ pc' = IF Pending = {ip} THEN "select" ELSE "eval"
            /\ log' = << [op |-> "filtered", ip |-> ip] >>
            /\ UNCHANGED << handles, registry >>
       ELSE \E r \in eval_rules([c |-> Logged(Controller, [op |-> "task", ip |-> ip]),
                                 ids |-> handles[ip], ok |-> TRUE],
                                ip, entries[ip], rules, 1, now) :
            /\ fw_rules' = r.c.rules
            /\ kernel' = r.c.kernel
            /\ next_handle' = r.c.next_handle
            /\ log' = r.c.log
            /\ handles' = [handles EXCEPT ![ip] = r.ids]
            /\ entries' = IF r.ok THEN [entries EXCEPT ![ip] = Absent] ELSE NoEntries
            /\ pc' = IF r.ok /\ Pending # {ip} THEN "eval" ELSE after_check(r.ok)
    /\ UNCHANGED << now, setup, signals, stats, windows, global_exclude, timer, calls >>

Next ==
    \/ Clock
    \/ \E ip \in IPs : \E ts \in Traffic(ip) : Monitor(ip, ts)
    \/ \E ip \in Excludable : add_exclude(ip)
    \/ Tick
    \/ \E ip \in IPs : Eval(ip)

Spec == Init /\ [][Next]_vars

\* ------------------------------------------------------------ control loop
ControlSignal == {"Pause", "Resume", "Stop"}

\* SignalController::pause / resume / stop: the signal goes into the channel
Send(sig) ==
    /\ pc # "exited"
    /\ Len(control_rx) < MaxChan
    /\ control_rx' = Append(control_rx, sig)
    /\ log' = << >>
    /\ UNCHANGED << now, setup, state, stop_flag, received, registry, stats, windows,
                    handles, global_exclude, pc, entries, timer, calls >>

\* a control branch that stores the stop flag and goes on selecting
breaks_never(signal) == FALSE

\* the control branch leaves the loop: `break` on Stop
breaks(signal) == signal = "Stop"

\* what the control branch stores into SignalController.state
stored_state(signal, running) ==
    IF signal = "Pause" THEN FALSE
    ELSE IF signal = "Resume" THEN TRUE ELSE running

\* RuleEngine::start, the control branch of select!
Recv ==
    /\ pc = "select"
    /\ received < Len(control_rx)
    /\ received' = received + 1
    /\ LET signal == control_rx[received + 1]
       IN  /\ state' = stored_state(signal, state)
           /\ stop_flag' = IF signal = "Stop" THEN TRUE ELSE stop_flag
           /\ pc' = IF breaks(signal) THEN "exited" ELSE pc
    /\ log' = << >>
    /\ UNCHANGED << now, setup, control_rx, registry, stats, windows, handles,
                    global_exclude, entries, timer, calls >>

\* the engine of the single-rule scenario under an operator who pauses,
\* resumes and stops it
InitCtl ==
    /\ Constructed
    /\ rules = << Rule(1, 2, Ban(1), {}) >>
    /\ hook = "Input"
    /\ hosts = {1}

NextCtl ==
    \/ Clock
    \/ \E ip \in IPs : \E ts \in Traffic(ip) : Monitor(ip, ts)
    \/ \E sig \in ControlSignal : Send(sig)
    \/ Recv
    \/ Tick
    \/ \E ip \in IPs : Eval(ip)

SpecCtl == InitCtl /\ [][NextCtl]_vars

\* select! picks among the ready branches at random, so a signal waiting in the
\* channel is received; a tick in flight runs to its end
NextLoop ==
    \/ Clock
    \/ \E ip \in IPs : Monitor(ip, TrafficStats(5, 0))
    \/ \E sig \in ControlSignal : Send(sig)
    \/ Recv
    \/ Tick
    \/ \E ip \in IPs : Eval(ip)

SpecCtlFair ==
    /\ InitCtl
    /\ [][NextLoop]_vars
    /\ WF_vars(Recv)
    /\ WF_vars(\E ip \in IPs : Eval(ip))

\* ------------------------------------------------------------ two addresses
\* the engine of the single-rule scenario with two addresses in the counter map
InitPair ==
    /\ Constructed
    /\ rules = << Rule(1, 2, Ban(1), {}) >>
    /\ hook = "Input"
    /\ hosts = IPs

NextPair ==
    \/ Clock
    \/ \E ip \in IPs : Monitor(ip, TrafficStats(5, 0))
    \/ Tick
    \/ \E ip \in IPs : Eval(ip)

SpecPair == InitPair /\ [][NextPair]_vars

\* ------------------------------------------------------------ controller API
\* The controller called directly, one call at a time, each call running to
\* its end before the next one starts.
\* the addresses the callers act on
Targets == {1}
ApiActions == { Ban(1), Ban(None), RateLimit(100, None, 1) }
\* the ids a caller may pass to unblock: those of the registry and a stale one
ApiIds == Keys(fw_rules) \cup { infinity_ban_id(2) }

ApiDone(r) ==
    /\ fw_rules' = r.c.rules
    /\ kernel' = r.c.kernel
    /\ next_handle' = r.c.next_handle
    /\ log' = r.c.log
    /\ UNCHANGED << now, setup, signals, stats, windows, handles, global_exclude,
                    pc, entries, timer, calls >>

ApiBan(ip, seconds) ==
    /\ next_handle <= MaxHandle
    /\ \E r \in call_ban(Controller, ip, seconds, now) : ApiDone(r)

ApiLimit(ip, kbps, burst, seconds) ==
    /\ next_handle <= MaxHandle
    /\ \E r \in call_limit(Controller, ip, kbps, burst, seconds, now) : ApiDone(r)

ApiUnblock(id) ==
    \E r \in call_unblock(Controller, id) : ApiDone(r)

InitApi ==
    /\ Constructed
    /\ rules = << Rule(1, 2, Ban(1), {}) >>
    /\ hook = "Input"
    /\ hosts = {}

NextApi ==
    \/ Clock
    \/ \E ip \in Targets : \E a \in { x \in ApiActions : x.kind = "Ban" } :
          ApiBan(ip, a.seconds)
    \/ \E ip \in Targets : \E a \in { x \in ApiActions : x.kind = "RateLimit" } :
          ApiLimit(ip, a.kbps, a.burst, a.seconds)
    \/ \E id \in ApiIds : ApiUnblock(id)

SpecApi == InitApi /\ [][NextApi]_vars

\* ------------------------------------------------------------ concurrent callers
\* Two tasks call the controller for the same address at the same time.  A call
\* that installs a rule has three parts with suspension points in between: the
\* duplicate check under the read lock, the command to the executor, and the
\* insert under the write lock.
Idle == [pc |-> "idle"]
\* the calls the two tasks make
CallActions == { Ban(1), Ban(None), RateLimit(100, None, 1), RateLimit(100, 7, None) }

\* the ids the duplicate check of the call finds
found(reg, ip, a, t) ==
    IF a.kind = "Ban"
    THEN IF a.seconds = None
         THEN { infinity_ban_id(ip) } \cap Keys(reg)
         ELSE ban_duplicates(reg, ip, a.seconds, t)
    ELSE IF a.seconds = None
         THEN { id \in { infinity_limit_id(ip, a.kbps) } \cap Keys(reg) :
                  /\ reg[id].rule_type.kind = "RateLimit"
                  /\ reg[id].rule_type.kbps = a.kbps }
         ELSE limit_duplicates(reg, ip, a.kbps, a.seconds, t)

\* the id the call gives to the rule it installs
new_id(ip, a, t) ==
    IF a.kind = "Ban"
    THEN IF a.seconds = None THEN infinity_ban_id(ip)
         ELSE ban_id(ip, t + Seconds(a.seconds))
    ELSE IF a.seconds = None THEN infinity_limit_id(ip, a.kbps)
         ELSE limit_id(ip, a.kbps, t + Seconds(a.seconds))

\* the rule_type the call stores
stored(a) ==
    IF a.kind = "Ban" THEN a
    ELSE RateLimit(a.kbps, burst_of(a.kbps, a.burst), a.seconds)

Call(ip, a, state_pc, id, ok, t, handle) ==
    [pc |-> state_pc, ip |-> ip, action |-> a, id |-> id, ok |-> ok, at |-> t,
     handle |-> handle]

\* ban / limit / infinity_ban / infinity_limit up to the end of the duplicate check
CallCheck(p, ip, a) ==
    /\ calls[p] = Idle
    /\ LET dups == found(fw_rules, ip, a, now)
       IN  IF dups # {}
           THEN \E id \in dups :
                    calls' = [calls EXCEPT ![p] = Call(ip, a, "done", id, TRUE, now, None)]
           ELSE calls' = [calls EXCEPT ![p] =
                              Call(ip, a, "create", new_id(ip, a, now), TRUE, now, None)]
    /\ log' = << >>
    /\ UNCHANGED << now, setup, signals, registry, stats, windows, handles,
                    global_exclude, pc, entries, timer >>

\* create_ban_rule / create_limit_rule and the parse of the handle
CallCreate(p) ==
    /\ calls[p] # Idle
    /\ calls[p].pc = "create"
    /\ LET a == stored(calls[p].action)
       IN  \E r \in IF a.kind = "Ban"
                    THEN create_ban_rule(Controller, calls[p].ip)
                    ELSE create_limit_rule(Controller, calls[p].ip, a.kbps, a.burst) :
              /\ kernel' = r.c.kernel
              /\ next_handle' = r.c.next_handle
              /\ log' = r.c.log
              /\ calls' = [calls EXCEPT ![p] =
                    IF r.ok /\ first_handle(r.out) # None
                    THEN [@ EXCEPT !.pc = "insert", !.handle = first_handle(r.out)]
                    ELSE [@ EXCEPT !.pc = "done", !.ok = FALSE, !.id = NoId]]
    /\ UNCHANGED << now, setup, signals, fw_rules, stats, windows, handles,
                    global_exclude, pc, entries, timer >>

\* self.rules.write().await.insert(rule_id, rule)
CallInsert(p) ==
    /\ calls[p] # Idle
    /\ calls[p].pc = "insert"
    /\ fw_rules' = Insert(fw_rules, calls[p].id,
                          FirewallRule(calls[p].id, calls[p].ip, stored(calls[p].action),
                                       calls[p].at, calls[p].handle))
    /\ calls' = [calls EXCEPT ![p].pc = "done"]
    /\ log' = << >>
    /\ UNCHANGED << now, setup, signals, kernel, next_handle, stats, windows, handles,
                    global_exclude, pc, entries, timer >>

InitConc ==
    /\ Constructed
    /\ rules = << Rule(1, 2, Ban(1), {}) >>
    /\ hook \in Hooks
    /\ hosts = {}

NextConc ==
    \/ Clock
    \/ \E p \in Callers : \E ip \in Targets : \E a \in CallActions : CallCheck(p, ip, a)
    \/ \E p \in Callers : CallCreate(p)
    \/ \E p \in Callers : CallInsert(p)

SpecConc == InitConc /\ [][NextConc]_vars

\* ------------------------------------------------------------ at the threshold
\* The engine with rules whose threshold the average can meet exactly: the
\* samples are 0 or 5 bytes per second, so the average of two is 0, 2 (5 / 2,
\* truncated) or 5
InitThreshold ==
    /\ Constructed
    /\ rules \in { << Rule(2, 2, Ban(1), {}) >>,
                    << Rule(2, 2, Ban(1), {}), Rule(1, 2, RateLimit(100, None, 1), {}) >>,
                    << Rule(1, 5, RateLimit(100, 7, None), {2}), Rule(2, 4, Ban(None), {}) >> }
    /\ hook = "Input"
    /\ hosts = {1}

NextThreshold ==
    \/ Clock
    \/ \E ip \in IPs : \E ts \in Traffic(ip) : Monitor(ip, ts)
    \/ Tick
    \/ \E ip \in IPs : Eval(ip)

SpecThreshold == InitThreshold /\ [][NextThreshold]_vars

\* ------------------------------------------------------------ end of the buffer
\* The engine a minute into its run: address 1 has been sending at or below
\* the threshold of the rule all along, so nothing is installed, and the
\* write position of its window has reached the last slots of the buffer.
LateWindows ==
    { [buffer |-> [i \in 1..MAX_WINDOW_BUFFER |-> IF i <= p + 1 THEN b ELSE 0],
       pos |-> p, last_ts |-> 0]
      : p \in {MAX_WINDOW_BUFFER - 2, MAX_WINDOW_BUFFER - 1}, b \in {0, 5} }

InitLate ==
    /\ now = 0
    /\ rules = << Rule(2, 5, Ban(1), {}) >>
    /\ hook \in Hooks
    /\ hosts = {1}
    /\ \E w \in LateWindows :
          /\ windows = [ip \in IPs |-> IF ip = 1 THEN w ELSE Absent]
          /\ stats = [ip \in IPs |-> IF ip = 1 THEN TrafficStats(w.buffer[1], w.buffer[1])
                                      ELSE Absent]
    /\ handles = [ip \in IPs |-> << >>]
    /\ fw_rules = Empty
    /\ global_exclude = {}
    /\ kernel = {}
    /\ next_handle = 1
    /\ state = TRUE
    /\ stop_flag = FALSE
    /\ control_rx = << >>
    /\ received = 0
    /\ pc = "select"
    /\ entries = NoEntries
    /\ timer = FALSE
    /\ calls = NoCalls
    /\ tables = {"traffic_filter", "traffic_input"}
    /\ nft_available = TRUE
    /\ main = "run"
    /\ pool = "open"
    /\ log = << >>

NextLate ==
    \/ Clock
    \/ \E ip \in IPs : \E ts \in Traffic(ip) : Monitor(ip, ts)
    \/ Tick
    \/ \E ip \in IPs : Eval(ip)

SpecLate == InitLate /\ [][NextLate]_vars

\* ------------------------------------------------------------ timed limits
\* limit called for one address: a rate with the default burst, the same with
\* a burst of its own, another rate, another duration
Limits == { RateLimit(100, None, 1), RateLimit(100, 7, 1), RateLimit(200, None, 1),
            RateLimit(100, None, 2) }

InitLimit ==
    /\ Constructed
    /\ rules = << Rule(1, 2, Ban(1), {}) >>
    /\ hook = "Input"
    /\ hosts = {}

NextLimit ==
    \/ Clock
    \/ \E a \in Limits : ApiLimit(1, a.kbps, a.burst, a.seconds)

SpecLimit == InitLimit /\ [][NextLimit]_vars

\* ------------------------------------------------------------ every installer
\* The five calls that install rules, for IPv4 and IPv6 addresses, under either
\* hook.
Batches == { << 1 >>, << 2 >>, << 1, 2 >> }

ApiBatchBan(ips, seconds) ==
    /\ next_handle + Len(ips) - 1 <= MaxHandle
    /\ \E r \in call_batch_ban(Controller, ips, seconds, now) : ApiDone(r)

InitInstall ==
    /\ Constructed
    /\ rules = << Rule(1, 2, Ban(1), {}) >>
    /\ hook \in Hooks
    /\ hosts = {}

NextInstall ==
    \/ \E ip \in IPs : \E a \in { x \in CallActions : x.kind = "Ban" } :
          ApiBan(ip, a.seconds)
    \/ \E ip \in IPs : \E a \in { x \in CallActions : x.kind = "RateLimit" } :
          ApiLimit(ip, a.kbps, a.burst, a.seconds)
    \/ \E ips \in Batches : ApiBatchBan(ips, 1)

SpecInstall == InitInstall /\ [][NextInstall]_vars

\* ------------------------------------------------------------ concurrent removals
\* Two tasks take entries out of the registry at the same time, while rules are
\* installed.  unblock has three parts with suspension points in between: the
\* read of the handle under the read lock, the `delete rule`, and the remove
\* under the write lock; flush has three as well: the count under the read
\* lock, the `flush chain`, and the clear under the write lock.
Removal(op, state_pc, id, handle, ok) ==
    [pc |-> state_pc, op |-> op, id |-> id, handle |-> handle, ok |-> ok]

flush_chain == [op |-> "flush chain", ver |-> None, ip |-> None, dir |-> None, what |-> None,
                kbps |-> None, burst |-> None, handle |-> None]

\* the ids the tasks ask to unblock: the registered ones and one that may be gone
RemoveIds == Keys(fw_rules) \cup {infinity_ban_id(1)}

\* unblock up to the release of the read lock
UnblockRead(p, id) ==
    /\ calls[p] = Idle
    /\ calls' = [calls EXCEPT ![p] =
          IF id \notin Keys(fw_rules) \/ fw_rules[id].handle = None
          THEN Removal("unblock", "done", id, None, FALSE)
          ELSE Removal("unblock", "delete", id, fw_rules[id].handle, TRUE)]
    /\ log' = << >>
    /\ UNCHANGED << now, setup, signals, registry, stats, windows, handles,
                    global_exclude, pc, entries, timer >>

\* self.remove_rule_by_handle(&handle).await?
UnblockDelete(p) ==
    /\ calls[p] # Idle
    /\ calls[p].pc = "delete"
    /\ \E r \in remove_rule_by_handle(Controller, calls[p].handle) :
          /\ kernel' = r.c.kernel
          /\ log' = r.c.log
          /\ calls' = [calls EXCEPT ![p] =
                IF r.ok THEN [@ EXCEPT !.pc = "remove"]
                ELSE [@ EXCEPT !.pc = "done", !.ok = FALSE]]
    /\ UNCHANGED << now, setup, signals, fw_rules, next_handle, stats, windows,
                    handles, global_exclude, pc, entries, timer >>

\* rules.remove(id) under the write lock, and the result of unblock
UnblockRemove(p) ==
    /\ calls[p] # Idle
    /\ calls[p].pc = "remove"
    /\ fw_rules' = IF calls[p].id \in Keys(fw_rules) THEN Remove(fw_rules, calls[p].id)
                   ELSE fw_rules
    /\ calls' = [calls EXCEPT ![p] =
                    [@ EXCEPT !.pc = "done", !.ok = (calls[p].id \in Keys(fw_rules))]]
    /\ log' = << >>
    /\ UNCHANGED << now, setup, signals, kernel, next_handle, stats, windows, handles,
                    global_exclude, pc, entries, timer >>

\* flush up to the release of the read lock
FlushCount(p) ==
    /\ calls[p] = Idle
    /\ calls' = [calls EXCEPT ![p] =
          IF Cardinality(Keys(fw_rules)) = 0
          THEN Removal("flush", "done", NoId, None, TRUE)
          ELSE Removal("flush", "flush", NoId, None, TRUE)]
    /\ log' = << >>
    /\ UNCHANGED << now, setup, signals, registry, stats, windows, handles,
                    global_exclude, pc, entries, timer >>

\* self.executor.input(&flush_cmd).await?
FlushChain(p) ==
    /\ calls[p] # Idle
    /\ calls[p].pc = "flush"
    /\ \E r \in input(Controller, flush_chain) :
          /\ kernel' = r.c.kernel
          /\ log' = r.c.log
          /\ calls' = [calls EXCEPT ![p] =
                IF r.ok THEN [@ EXCEPT !.pc = "clear"]
                ELSE [@ EXCEPT !.pc = "done", !.ok = FALSE]]
    /\ UNCHANGED << now, setup, signals, fw_rules, next_handle, stats, windows,
                    handles, global_exclude, pc, entries, timer >>

\* self.rules.write().await.clear()
FlushClear(p) ==
    /\ calls[p] # Idle
    /\ calls[p].pc = "clear"
    /\ fw_rules' = Empty
    /\ calls' = [calls EXCEPT ![p].pc = "done"]
    /\ log' = << >>
    /\ UNCHANGED << now, setup, signals, kernel, next_handle, stats, windows, handles,
                    global_exclude, pc, entries, timer >>

InitRemove ==
    /\ Constructed
    /\ rules = << Rule(1, 2, Ban(1), {}) >>
    /\ hook = "Input"
    /\ hosts = {}

NextRemove ==
    \/ \E ip \in IPs : ApiBan(ip, None)
    \/ \E p \in Callers : \E id \in RemoveIds : UnblockRead(p, id)
    \/ \E p \in Callers : UnblockDelete(p)
    \/ \E p \in Callers : UnblockRemove(p)
    \/ \E p \in Callers : FlushCount(p)
    \/ \E p \in Callers : FlushChain(p)
    \/ \E p \in Callers : FlushClear(p)

SpecRemove == InitRemove /\ [][NextRemove]_vars

\* ------------------------------------------------------------ orchestrator
\* main: construction of the controller, the run of the engine, shutdown
TableAndChain == {"traffic_filter", "traffic_input"}
BatchOutcomes == {"ok", "Timeout", "Other"}
CheckOutcomes == {"available", "absent", "error"}

Cmd(op, what) == [op |-> op, ver |-> None, ip |-> None, dir |-> None, what |-> what,
                  kbps |-> None,
                  burst |-> None, handle |-> None]
\* a batch as the log shows it: the commands sent and how the executor answered
SentBatch(cmds, result) == [op |-> "batch", cmds |-> cmds, result |-> result]

\* NftExecutor::execute_batch of `add table` and `add chain`: both are applied
\* when the executor answers Ok; a read that timed out may have been applied or
\* not; another error applies nothing
execute_batch(tb, cmds) ==
    { [tables |-> tb \cup TableAndChain, result |-> "ok",
       log |-> << SentBatch(cmds, "ok") >>] }
    \cup
    { [tables |-> t, result |-> "Timeout", log |-> << SentBatch(cmds, "Timeout") >>]
      : t \in {tb, tb \cup TableAndChain} }
    \cup
    { [tables |-> tb, result |-> "Other", log |-> << SentBatch(cmds, "Other") >>] }

\* an initialisation that swallows no error
swallowed_nothing(e) == FALSE

\* the error init_table_and_chain swallows
swallowed(e) == e = "Timeout"

init_table_and_chain(tb) ==
    { [tables |-> r.tables, log |-> r.log,
       ok |-> (r.result = "ok" \/ swallowed(r.result))]
      : r \in execute_batch(tb, << "add table", "add chain" >>) }

\* Firewall::new
FirewallNew ==
    /\ main = "new"
    /\ fw_rules' = Empty
    /\ \E avail \in CheckOutcomes :
          IF avail = "error"
          THEN /\ main' = "failed"
               /\ log' = << >>
               /\ UNCHANGED << tables, nft_available >>
          ELSE IF avail = "absent"
          THEN /\ main' = "run"
               /\ nft_available' = FALSE
               /\ log' = << >>
               /\ UNCHANGED tables
          ELSE \E r \in init_table_and_chain(tables) :
                 /\ nft_available' = TRUE
                 /\ tables' = r.tables
                 /\ log' = r.log
                 /\ main' = IF r.ok THEN "run" ELSE "failed"
    /\ UNCHANGED << now, hook, rules, hosts, signals, kernel, next_handle, stats,
                    windows, handles, global_exclude, pc, entries, timer, calls, pool >>

\* the engine and its callers while main awaits tasks::run
Running(A) == main = "run" /\ A

\* tasks::run returns once the engine loop has exited; the monitor may have
\* made its own table by then
RunReturned ==
    /\ main = "run"
    /\ pc = "exited"
    /\ main' = "cleanup"
    /\ \E made \in BOOLEAN :
          tables' = IF made /\ nft_available THEN tables \cup {"traffic_monitor"}
                    ELSE tables
    /\ log' = << >>
    /\ UNCHANGED << now, hook, rules, hosts, nft_available, pool, signals, registry,
                    stats, windows, handles, global_exclude, pc, entries, timer, calls >>

\* Firewall::cleanup: `delete table`, `list tables`, clear the registry
cleanup(c) ==
    UNION { IF ~d.ok THEN { Ret(d.c, FALSE, NoId) }
            ELSE { IF o = "ok"
                   THEN Ret([d.c EXCEPT !.rules = Empty,
                                        !.log = Append(@, Sent(Cmd("list tables", None),
                                                               TRUE))],
                            TRUE, NoId)
                   ELSE Ret([d.c EXCEPT !.log = Append(@, Sent(Cmd("list tables", None),
                                                               FALSE))],
                            FALSE, NoId)
                   : o \in ExecOutcomes }
            : d \in input(c, Cmd("delete table", "traffic_filter")) }

\* fw.cleanup().await?
FwCleanup ==
    /\ main = "cleanup"
    /\ \E r \in cleanup(Controller) :
          /\ fw_rules' = r.c.rules
          /\ kernel' = r.c.kernel
          /\ log' = r.c.log
          /\ tables' = IF r.c.log[1].ack THEN tables \ TableAndChain ELSE tables
          /\ main' = IF r.ok THEN "delete" ELSE "failed"
    /\ UNCHANGED << now, hook, rules, hosts, nft_available, pool, signals, next_handle,
                    stats, windows, handles, global_exclude, pc, entries, timer, calls >>

\* executor.input("delete table inet traffic_monitor").await?
DeleteMonitorTable ==
    /\ main = "delete"
    /\ \E r \in input(Controller, Cmd("delete table", "traffic_monitor")) :
          /\ log' = r.c.log
          /\ tables' = IF r.ok THEN tables \ {"traffic_monitor"} ELSE tables
          /\ main' = IF r.ok THEN "drain" ELSE "failed"
    /\ UNCHANGED << now, hook, rules, hosts, nft_available, pool, signals, registry,
                    stats, windows, handles, global_exclude, pc, entries, timer, calls >>

\* executor.cleanup().await?
ExecutorCleanup ==
    /\ main = "drain"
    /\ \E o \in ExecOutcomes :
          IF o = "ok" THEN main' = "done" /\ pool' = "drained"
          ELSE main' = "failed" /\ pool' \in {"open", "drained"}
    /\ log' = << >>
    /\ UNCHANGED << now, hook, rules, hosts, tables, nft_available, signals, registry,
                    stats, windows, handles, global_exclude, pc, entries, timer, calls >>

\* the daemon is started again: a new process over the kernel state the last
\* one left behind
Restart ==
    /\ main \in {"done", "failed"}
    /\ main' = "new"
    /\ pool' = "open"
    /\ fw_rules' = Empty
    /\ state' = TRUE
    /\ stop_flag' = FALSE
    /\ control_rx' = << >>
    /\ received' = 0
    /\ pc' = "select"
    /\ log' = << >>
    /\ UNCHANGED << now, hook, rules, hosts, tables, nft_available, kernel, next_handle,
                    stats, windows, handles, global_exclude, entries, timer, calls >>

InitMain ==
    /\ Started
    /\ tables = {}
    /\ nft_available = FALSE
    /\ main = "new"
    /\ rules = << Rule(1, 2, Ban(1), {}) >>
    /\ hook = "Input"
    /\ hosts = {}

NextMain ==
    \/ FirewallNew
    \/ Running(TableAndChain \subseteq tables /\ ApiBan(1, None))
    \/ Running(\E sig \in ControlSignal : Send(sig))
    \/ Running(Recv)
    \/ RunReturned
    \/ FwCleanup
    \/ DeleteMonitorTable
    \/ ExecutorCleanup
    \/ Restart

SpecMain == InitMain /\ [][NextMain]_vars

\* ------------------------------------------------------------ flush and cleanup
\* Installs, flush and cleanup called one at a time, each running to its end.
\* Ok(n) of flush, as the log shows it
Count(n) == << "count", n >>

\* a flush that clears the registry before the command has been acknowledged
flush_clears_first(c) ==
    LET rule_count == Cardinality(Keys(c.rules)) IN
    IF rule_count = 0 THEN { Ret(c, TRUE, Count(0)) }
    ELSE { IF r.ok THEN Ret([r.c EXCEPT !.rules = Empty], TRUE, Count(rule_count))
           ELSE Ret([r.c EXCEPT !.rules = Empty], FALSE, NoId)
           : r \in input(c, flush_chain) }

\* Firewall::flush; the result carries the count in the place of an id
flush(c) ==
    LET rule_count == Cardinality(Keys(c.rules)) IN
    IF rule_count = 0 THEN { Ret(c, TRUE, Count(0)) }
    ELSE { IF r.ok THEN Ret([r.c EXCEPT !.rules = Empty], TRUE, Count(rule_count))
           ELSE Ret(r.c, FALSE, NoId)
           : r \in input(c, flush_chain) }

call_flush(c) ==
    { Returned(c, r) : r \in flush(Logged(c, [op |-> "flush", rules |-> c.rules])) }

call_cleanup(c, tb) ==
    { Returned(c, r)
      : r \in cleanup(Logged(c, [op |-> "cleanup", rules |-> c.rules, tables |-> tb])) }

ApiFlush ==
    \E r \in call_flush(Controller) : ApiDone(r)

ApiCleanup ==
    \E r \in call_cleanup(Controller, tables) :
       /\ fw_rules' = r.c.rules
       /\ kernel' = r.c.kernel
       /\ log' = r.c.log
       /\ tables' = IF r.c.log[2].ack THEN tables \ TableAndChain ELSE tables
       /\ UNCHANGED << now, hook, rules, hosts, nft_available, main, pool, signals,
                       next_handle, stats, windows, handles, global_exclude, pc,
                       entries, timer, calls >>

InitClear ==
    /\ Constructed
    /\ rules = << Rule(1, 2, Ban(1), {}) >>
    /\ hook = "Input"
    /\ hosts = {}

NextClear ==
    \/ Clock
    \/ \E ip \in IPs : TableAndChain \subseteq tables /\ ApiBan(ip, None)
    \/ TableAndChain \subseteq tables /\ ApiLimit(1, 100, None, 1)
    \/ ApiFlush
    \/ ApiCleanup

SpecClear == InitClear /\ [][NextClear]_vars

\* ------------------------------------------------------------ the locks of a tick
\* The evaluation phase of check_and_apply step by step.  The tasks of the
\* addresses are futures of one try_for_each_concurrent, polled in turn by the
\* one thread that runs the engine; a task gives way to the others only at an
\* await.  `handles` is a DashMap: entry() takes the write lock of the shard of
\* the address, get() the read lock, and a lock that is not free blocks the
\* thread.  Both addresses send above the threshold of the rule all along.
\* the clock units the ticks looked at are spread over
LockTime == 4
\* the shards two addresses may fall into
Shards == {1, 2}

\* the task of an address: where it stands, the id it is about to push, the
\* shard of its address, whether it holds the Ref that get() returned
Task(state_pc, id, shard, guard) ==
    [pc |-> state_pc, id |-> id, shard |-> shard, guard |-> guard]

\* the thread is stuck in a lock
Stuck == \E ip \in IPs : calls[ip].pc = "blocked"

\* the tasks whose Ref keeps the shard locked
Holders(shard) == { ip \in IPs : calls[ip].guard /\ calls[ip].shard = shard }

\* the task is over: Ok ends it alone, Err ends check_and_apply and drops the
\* other tasks with their guards
TaskOver(ip, ok) ==
    /\ entries' = IF ok THEN [entries EXCEPT ![ip] = Absent] ELSE NoEntries
    /\ calls' = [i \in IPs |-> IF i = ip \/ ~ok
                               THEN Task("start", NoId, calls[i].shard, FALSE)
                               ELSE calls[i]]
    /\ pc' = IF ok /\ Pending # {ip} THEN "eval" ELSE after_check(ok)

\* the threshold test of the rule and `fw.ban(ip, seconds).await?`
TaskCheck(ip) ==
    /\ pc = "eval" /\ ~Stuck
    /\ entries[ip] # Absent
    /\ calls[ip].pc = "start"
    /\ next_handle <= MaxHandle
    /\ IF exceeds(avg_bps(entries[ip], rules[1].window_secs), rules[1].threshold_bps)
       THEN \E r \in call_ban(Logged(Controller, [op |-> "task", ip |-> ip]), ip,
                              rules[1].action.seconds, now) :
              /\ fw_rules' = r.c.rules
              /\ kernel' = r.c.kernel
              /\ next_handle' = r.c.next_handle
              /\ log' = r.c.log
              /\ IF r.ok
                 THEN /\ calls' = [calls EXCEPT ![ip].pc = "push", ![ip].id = r.id]
                      /\ UNCHANGED << entries, pc >>
                 ELSE TaskOver(ip, FALSE)
       ELSE /\ calls' = [calls EXCEPT ![ip].pc = "get"]
            /\ log' = << [op |-> "task", ip |-> ip] >>
            /\ UNCHANGED << registry, entries, pc >>
    /\ UNCHANGED << now, setup, signals, stats, windows, handles, global_exclude, timer >>

\* self.handles.entry(ip).and_modify(push).or_insert_with(..): the write lock
\* of the shard, released at the end of the statement
TaskPush(ip) ==
    /\ pc = "eval" /\ ~Stuck
    /\ calls[ip].pc = "push"
    /\ IF Holders(calls[ip].shard) \ {ip} # {}
       THEN /\ calls' = [calls EXCEPT ![ip].pc = "blocked"]
            /\ UNCHANGED handles
       ELSE /\ handles' = [handles EXCEPT ![ip] = Append(@, calls[ip].id)]
            /\ calls' = [calls EXCEPT ![ip].pc = "get", ![ip].id = NoId]
    /\ log' = << >>
    /\ UNCHANGED << now, setup, signals, registry, stats, windows, global_exclude,
                    pc, entries, timer >>

\* clean_expiration_rules, `if let Some(ids) = self.handles.get(&ip)`: the Ref
\* lives to the end of the `if let`; with ids to look at and a finite duration
\* the loop reaches `fw.is_expiration(..).await` with the Ref held
TaskGet(ip) ==
    /\ pc = "eval" /\ ~Stuck
    /\ calls[ip].pc = "get"
    /\ IF handles[ip] # << >> /\ rules[1].action.seconds # None
       THEN /\ calls' = [calls EXCEPT ![ip].pc = "sweep", ![ip].guard = TRUE]
            /\ UNCHANGED << entries, pc >>
       ELSE TaskOver(ip, TRUE)
    /\ log' = << >>
    /\ UNCHANGED << now, setup, signals, registry, stats, windows, handles,
                    global_exclude, timer >>

\* clean_expiration_rules, the loop over the ids: is_expiration and unblock of
\* each, then the Ref is dropped
TaskSweep(ip) ==
    /\ pc = "eval" /\ ~Stuck
    /\ calls[ip].pc = "sweep"
    /\ \E r \in clean_expiration_rules([c |-> Controller, ids |-> handles[ip], ok |-> TRUE],
                                       rules[1], now) :
          /\ fw_rules' = r.c.rules
          /\ kernel' = r.c.kernel
          /\ log' = r.c.log
          /\ TaskOver(ip, r.ok)
    /\ UNCHANGED << now, setup, signals, next_handle, stats, windows, handles,
                    global_exclude, timer >>

\* the window of an address that has sent 5 bytes in the last second
BusyWindow ==
    [buffer |-> [i \in 1..MAX_WINDOW_BUFFER |-> IF i = 2 THEN 5 ELSE 0],
     pos |-> 1, last_ts |-> 0]

InitLock ==
    /\ now = 0
    /\ rules = << Rule(1, 2, Ban(1), {}) >>
    /\ hook = "Input"
    /\ hosts = IPs
    /\ windows = [ip \in IPs |-> BusyWindow]
    /\ stats = [ip \in IPs |-> TrafficStats(5, 0)]
    /\ handles = [ip \in IPs |-> << >>]
    /\ fw_rules = Empty
    /\ global_exclude = {}
    /\ kernel = {}
    /\ next_handle = 1
    /\ state = TRUE
    /\ stop_flag = FALSE
    /\ control_rx = << >>
    /\ received = 0
    /\ pc = "select"
    /\ entries = NoEntries
    /\ timer = TRUE
    /\ \E sh \in [IPs -> Shards] :
          calls = [ip \in IPs |-> Task("start", NoId, sh[ip], FALSE)]
    /\ tables = {"traffic_filter", "traffic_input"}
    /\ nft_available = TRUE
    /\ main = "run"
    /\ pool = "open"
    /\ log = << >>

NextLock ==
    \/ now < LockTime /\ Clock
    \/ Tick
    \/ \E ip \in IPs : TaskCheck(ip)
    \/ \E ip \in IPs : TaskPush(ip)
    \/ \E ip \in IPs : TaskGet(ip)
    \/ \E ip \in IPs : TaskSweep(ip)

SpecLock == InitLock /\ [][NextLock]_vars

\* ------------------------------------------------------------ expiry
\* The engine of the single-rule scenario left running: the interval keeps
\* firing and every tick that has begun runs to its end, while an operator may
\* add addresses to the global exclusion set.
NextExpire ==
    \/ Clock
    \/ \E ip \in IPs : Monitor(ip, TrafficStats(5, 0))
    \/ \E ip \in Excludable : add_exclude(ip)
    \/ Tick
    \/ \E ip \in IPs : Eval(ip)

SpecExpire ==
    /\ InitCtl
    /\ [][NextExpire]_vars
    /\ WF_vars(Clock)
    /\ WF_vars(Tick)
    /\ WF_vars(\E ip \in IPs : Eval(ip))

\* ------------------------------------------------------------ properties
Events(l, ops) == { i \in 1..Len(l) : l[i].op \in ops }
\* the step just taken was the task of address ip
TaskOf(l, ip) == Len(l) > 0 /\ l[1] = [op |-> "task", ip |-> ip]
Kinds == {"Ban", "RateLimit"}

\* an entry is active: indefinite, or created_at + seconds > now
IsActive(e, t) ==
    \/ e.rule_type.seconds = None
    \/ e.created_at + Seconds(e.rule_type.seconds) > t
ActiveEntries(ip, kind) ==
    { id \in Keys(fw_rules) :
        /\ fw_rules[id].ip = ip
        /\ fw_rules[id].rule_type.kind = kind
        /\ IsActive(fw_rules[id], now) }

\* C1: once a tick has completed, the registry holds at most one active entry
\* for every address and action kind.
C1_OneActivePerKind ==
    pc = "select" =>
        \A ip \in IPs : \A kind \in Kinds : Cardinality(ActiveEntries(ip, kind)) <= 1

RECURSIVE SumEndingAt(_, _, _)
\* the sum of the w samples ending at slot p, taken cyclically
SumEndingAt(buffer, p, w) ==
    IF w = 0 THEN 0
    ELSE buffer[p + 1]
         + SumEndingAt(buffer, (p + Len(buffer) - 1) % Len(buffer), w - 1)

\* C6: the average compared with the threshold of a rule is the sum of the
\* window_secs samples ending at the write position, divided by window_secs.
C6_AverageEndsAtPos ==
    \A ip \in IPs : entries[ip] # Absent =>
        \A i \in 1..Len(rules) :
            avg_bps(entries[ip], rules[i].window_secs)
                = SumEndingAt(entries[ip].buffer, entries[ip].pos, rules[i].window_secs)
                    \div rules[i].window_secs

\* C7: the sweep unblocks an id only when its registry entry was installed with
\* a finite duration and that duration has elapsed.
C7_SweepByOwnDuration ==
    \A i \in Events(log, {"unblock"}) :
        /\ log[i].rule # NoRule
        /\ log[i].rule.rule_type.seconds # None
        /\ now > log[i].rule.created_at + Seconds(log[i].rule.rule_type.seconds)

\* C8: the sweep never unblocks an entry installed with seconds = None.
C8_IndefiniteNeverSwept ==
    \A i \in Events(log, {"unblock"}) :
        log[i].rule # NoRule => log[i].rule.rule_type.seconds # None

\* the Ban entries of ip that a ban of s seconds finds still running
RunningBans(ip, s) ==
    { id \in Keys(fw_rules) :
        /\ fw_rules[id].ip = ip
        /\ fw_rules[id].rule_type.kind = "Ban"
        /\ fw_rules[id].created_at + Seconds(s) > now }
EntriesOf(reg, ip) == { id \in Keys(reg) : reg[id].ip = ip }

\* C2: a finite ban called while a Ban entry of the address is still running
\* returns the id of such an entry, sends no `add rule` and leaves the registry
\* as it was; with a single Ban rule and one entry for the address, the whole
\* task of that tick sends no `add rule` and changes neither registry nor kernel.
C2_BanDeduplicated ==
    [][ \A ip \in IPs :
          ( /\ TaskOf(log', ip)
            /\ Len(log') >= 2
            /\ log'[2].op = "ban"
            /\ log'[2].seconds # None
            /\ RunningBans(ip, log'[2].seconds) # {} )
          => /\ Len(log') >= 3
             /\ log'[3].op = "ret"
             /\ log'[3].ok
             /\ log'[3].id \in RunningBans(ip, log'[2].seconds)
             /\ log'[3].same
             /\ ( Len(rules) = 1 /\ Cardinality(EntriesOf(fw_rules, ip)) = 1 )
                => /\ Events(log', {"add rule"}) = {}
                   /\ UNCHANGED registry ]_vars

\* C2 witness: a later tick met the running ban of the single-rule scenario
C2_Witness ==
    /\ Len(rules) = 1
    /\ TaskOf(log, 1)
    /\ Len(log) >= 3
    /\ log[2].op = "ban"
    /\ log[3].op = "ret" /\ log[3].ok /\ log[3].same
    /\ Keys(fw_rules) = {log[3].id}
    /\ fw_rules[log[3].id].created_at < now
    /\ next_handle = 2

\* the address an event of the log is about; a `delete rule` names only a
\* handle, it is about the address of the entry that holds the handle
Concerns(ev, ip, reg) ==
    CASE ev.op \in {"task", "ban", "limit", "add rule"} -> ev.ip = ip
      [] ev.op = "unblock" -> ev.id[2] = ip
      [] ev.op = "delete rule" ->
            \E id \in Keys(reg) : reg[id].ip = ip /\ reg[id].handle = ev.handle
      [] OTHER -> FALSE

\* C4: no step calls ban, limit or unblock for an address that is in the global
\* exclusion set, nor sends an `add rule` or `delete rule` about it.  The set
\* only grows, so an address excluded when the tick starts is excluded when its
\* snapshot entry is reached.
C4_ExcludedUntouched ==
    [][ \A ip \in global_exclude :
          \A i \in 1..Len(log') : ~Concerns(log'[i], ip, fw_rules) ]_vars

\* C4 witness: an excluded address whose window crosses the threshold was
\* filtered out of the tick
C4_Witness ==
    /\ 1 \in global_exclude
    /\ log = << [op |-> "filtered", ip |-> 1] >>
    /\ windows[1] # Absent
    /\ avg_bps(windows[1], rules[1].window_secs) > rules[1].threshold_bps
    /\ ~rule_is_excluded(rules[1], 1)

\* the finite entries of ip whose own duration has elapsed
OwnExpired(ip) ==
    { id \in EntriesOf(fw_rules, ip) :
        /\ fw_rules[id].rule_type.seconds # None
        /\ now > fw_rules[id].created_at + Seconds(fw_rules[id].rule_type.seconds) }
DeletesFor(l, h) == { i \in Events(l, {"delete rule"}) : l[i].handle = h }
\* the executor accepted every command of the step and printed the handle of
\* every rule it added
Accepted(l) ==
    /\ \A i \in Events(l, {"add rule", "delete rule"}) : l[i].ack
    /\ \A i \in Events(l, {"output"}) :
          /\ Len(l[i].out) > 0
          /\ l[i].out[1].tag = "Add"
          /\ l[i].out[1].handle # None

\* what every `delete rule` of a step is: sent once, for a handle that is in the
\* kernel; handles are never given twice, so none follows an accepted delete
DeletesAreFresh ==
    /\ \A h \in kernel : h < next_handle
    /\ \A i \in Events(log', {"delete rule"}) :
          /\ log'[i].handle \in kernel
          /\ Cardinality(DeletesFor(log', log'[i].handle)) = 1

C3_AtMostOneEquivalentRule ==
    ( /\ \A p \in Callers : calls[p] # Idle /\ calls[p].pc = "done" /\ calls[p].ok
      /\ \A p, q \in Callers :
            /\ calls[p].ip = calls[q].ip
            /\ calls[p].action = calls[q].action
            /\ calls[p].at = calls[q].at )
    => /\ Cardinality(kernel) <= 1
       /\ Cardinality(Keys(fw_rules)) = 1
       /\ \A id \in Keys(fw_rules) : kernel = { fw_rules[id].handle }

\* the step is unblock(id) called on its own
UnblockOf(l, id) == Len(l) > 0 /\ l[1].op = "unblock" /\ l[1].id = id
Last(l) == l[Len(l)]

\* C5 as stated: unblock of a registered id sends exactly one `delete rule` with
\* the handle of the entry, removes the id and nothing else, and returns Ok.
C5_AsStated ==
    [][ \A id \in Keys(fw_rules) : UnblockOf(log', id) =>
          /\ Cardinality(Events(log', {"delete rule"})) = 1
          /\ Cardinality(DeletesFor(log', fw_rules[id].handle)) = 1
          /\ Events(log', {"add rule"}) = {}
          /\ fw_rules' = Remove(fw_rules, id)
          /\ Last(log').op = "ret" /\ Last(log').ok ]_vars

\* C5 amended: unblock of a registered id sends exactly one `delete rule` with
\* the handle of the entry; when the executor accepts it, the id is removed,
\* every other entry is unchanged and Ok is returned; when the executor rejects
\* it, the registry is unchanged and an error is returned.
C5_UnblockDeletesByHandle ==
    [][ \A id \in Keys(fw_rules) : UnblockOf(log', id) =>
          /\ fw_rules[id].handle # None
          /\ Cardinality(Events(log', {"delete rule"})) = 1
          /\ Cardinality(DeletesFor(log', fw_rules[id].handle)) = 1
          /\ Events(log', {"add rule"}) = {}
          /\ Last(log').op = "ret"
          /\ IF Accepted(log')
             THEN /\ fw_rules' = Remove(fw_rules, id)
                  /\ kernel' = kernel \ { fw_rules[id].handle }
                  /\ Last(log').ok
             ELSE /\ UNCHANGED registry
                  /\ ~Last(log').ok ]_vars

\* C5 witness: an accepted unblock took one of several entries out of the registry
C5_Witness ==
    /\ Len(log) = 3
    /\ log[1].op = "unblock" /\ log[1].rule # NoRule
    /\ log[2].op = "delete rule" /\ log[2].ack /\ log[2].handle = log[1].rule.handle
    /\ log[3].op = "ret" /\ log[3].ok
    /\ log[1].id \notin Keys(fw_rules)
    /\ Cardinality(Keys(fw_rules)) >= 1
    /\ Cardinality(kernel) = Cardinality(Keys(fw_rules))

\* the last signal the loop has received
LastSignal == IF received = 0 THEN "none" ELSE control_rx[received]
\* the loop is paused: state was stored false and not yet true again
Paused == ~state
\* the threshold of the rule is crossed in the snapshot of ip
Crossed(ip) ==
    /\ entries[ip] # Absent
    /\ avg_bps(entries[ip], rules[1].window_secs) > rules[1].threshold_bps
Installed == kernel' \ kernel

\* the loop is paused from the receipt of a Pause on; while it is paused no step
\* starts check_and_apply, runs a task, sends an `add rule` or touches the
\* registry, the windows or the id lists
PausedIsQuiet ==
    /\ LastSignal = "Pause" => Paused
    /\ Paused => /\ pc # "eval"
                 /\ Events(log', {"check_and_apply", "task", "add rule"}) = {}
                 /\ UNCHANGED << registry, windows, handles >>

\* C10 as stated: paused means quiet, and after Resume a task that finds the
\* threshold crossed installs exactly one rule.
C10_AsStated ==
    [][ /\ PausedIsQuiet
        /\ \A ip \in IPs :
              ( TaskOf(log', ip) /\ Crossed(ip) /\ LastSignal = "Resume" )
              => Cardinality(Installed) = 1 ]_vars

\* C10 amended: paused means quiet, and after Resume a task that finds the
\* threshold crossed while no ban of the address is running installs exactly one
\* rule, sending one `add rule`, provided the executor accepts its commands and
\* prints the handle of the rule.
C10_TickOnlyWhenRunning ==
    [][ /\ PausedIsQuiet
        /\ \A ip \in IPs :
              ( /\ TaskOf(log', ip) /\ Crossed(ip) /\ LastSignal = "Resume"
                /\ RunningBans(ip, rules[1].action.seconds) = {}
                /\ Accepted(log') )
              => /\ Cardinality(Installed) = 1
                 /\ Cardinality(Events(log', {"add rule"})) = 1
                 /\ Cardinality(Keys(fw_rules') \ Keys(fw_rules)) = 1 ]_vars

\* C10 witness: paused, resumed, and then the first rule of the run installed
C10_Witness ==
    /\ received = 2
    /\ control_rx[1] = "Pause" /\ control_rx[2] = "Resume"
    /\ TaskOf(log, 1)
    /\ Cardinality(Events(log, {"add rule"})) = 1
    /\ Accepted(log)
    /\ kernel = {1}
    /\ Cardinality(Keys(fw_rules)) = 1

StopSent == \E i \in 1..Len(control_rx) : control_rx[i] = "Stop"
Stopped == pc = "exited"
\* the step is the receipt of signal sig
Received(sig) == received' = received + 1 /\ control_rx[received + 1] = sig

\* C11: the receipt of Pause leaves the loop paused, of Resume running, of Stop
\* (from either) stopped; a stopped loop stays stopped and starts no
\* check_and_apply; and once a Stop is in the channel the loop stops.
C11_StateMachine ==
    /\ [][ /\ Received("Pause") => ~state' /\ pc' = pc
           /\ Received("Resume") => state' /\ pc' = pc
           /\ Received("Stop") => Stopped'
           /\ Stopped => /\ Stopped'
                         /\ state' = state
                         /\ Events(log', {"check_and_apply", "task", "add rule"}) = {} ]_vars
    /\ (StopSent ~> Stopped)

\* C11 witness: the loop was stopped while it was paused
C11_Witness ==
    /\ Stopped
    /\ ~state
    /\ control_rx = << "Pause", "Stop" >>
    /\ received = 2
    /\ now > 0

\* C12: the task of one address, whatever its controller calls return, leaves
\* the snapshot entries of the other addresses to be evaluated in the same tick.
C12_ErrorConfined ==
    [][ \A ip \in IPs : TaskOf(log', ip) =>
          \A other \in IPs \ {ip} : entries'[other] = entries[other] ]_vars

\* the step is a task that ended with an error
Failed(l) == \E i \in Events(l, {"ret"}) : ~l[i].ok

\* C13: a task that ends with an error leaves the loop selecting, in the state
\* it was in, with the stop flag as it was; the loop exits only when it
\* receives Stop.
C13_FailureKeepsLoop ==
    [][ /\ Failed(log') => /\ pc' = "select"
                           /\ state' = state
                           /\ stop_flag' = stop_flag
                           /\ UNCHANGED << control_rx, received >>
        /\ (pc # "exited" /\ pc' = "exited") => Received("Stop") ]_vars

\* C13 witness: after a task failed, the loop is running and ready to select
C13_Witness ==
    /\ TaskOf(log, 1)
    /\ Failed(log)
    /\ pc = "select"
    /\ state
    /\ ~stop_flag
    /\ received = 2

\* the executor accepted the `add rule` of the step and the first object of its
\* parsed output is an Add that carries handle h
AddedWith(l, h) ==
    /\ \E i \in Events(l, {"add rule"}) : l[i].ack
    /\ \E i \in Events(l, {"output"}) :
          /\ Len(l[i].out) > 0
          /\ l[i].out[1].tag = "Add"
          /\ l[i].out[1].handle = h
InstallCall(l) == Len(l) > 0 /\ l[1].op \in {"ban", "limit"}

C15_UnknownIdRejected ==
    [][ (Len(log') > 0 /\ log'[1].op = "unblock" /\ log'[1].id \notin Keys(fw_rules)) =>
          /\ Events(log', {"add rule", "delete rule", "output"}) = {}
          /\ Len(log') = 2
          /\ Last(log').op = "ret" /\ ~Last(log').ok
          /\ UNCHANGED registry ]_vars

\* C15 witness: an unblock of an id the registry does not hold was refused
\* while the registry held another entry
C15_Witness ==
    /\ Len(log) = 2
    /\ log[1].op = "unblock" /\ log[1].rule = NoRule /\ log[1].id \notin Keys(fw_rules)
    /\ log[2].op = "ret" /\ ~log[2].ok
    /\ Keys(fw_rules) # {}
    /\ kernel # {}
\* the unblock calls that returned Ok after removing the rule with handle h
UnblockedOk(h) ==
    { p \in Callers : /\ calls[p] # Idle
                      /\ calls[p].op = "unblock" /\ calls[p].pc = "done"
                      /\ calls[p].handle = h /\ calls[p].ok }

\* C16: entries are removed exactly once under concurrent unblock and flush: a
\* `delete rule` is issued only for a handle whose rule no accepted
\* `delete rule` or `flush chain` of another call has taken out of the chain
\* already, so at most one is issued for the handle of an entry; and at most
\* one of the unblock calls for an entry returns Ok.
C16_RemovedOnce ==
    /\ [][ \A i \in Events(log', {"delete rule"}) : log'[i].handle \in kernel ]_vars
    /\ [](\A h \in 1..MaxHandle : Cardinality(UnblockedOk(h)) <= 1)
\* the step just taken was a construction that sent its batch
Batched(l) == Len(l) = 1 /\ l[1].op = "batch"
\* the step just taken was a construction
Built == main = "new" /\ main' # "new"

\* what every construction does: it starts from an empty registry; with the
\* firewall program available it sends `add table` and `add chain` as one
\* batch and nothing else; Ok and Timeout let it succeed, any other error
\* makes it fail; a batch answered Ok leaves the table and the chain in place
BatchDecides ==
    Built =>
      /\ fw_rules' = Empty
      /\ (main' = "run" /\ nft_available') => Batched(log')
      /\ Batched(log') =>
            /\ log'[1].cmds = << "add table", "add chain" >>
            /\ log'[1].result \in {"ok", "Timeout"} => main' = "run"
            /\ log'[1].result \notin {"ok", "Timeout"} => main' = "failed"
            /\ log'[1].result = "ok" => tables' = tables \cup TableAndChain

\* C17 as stated: construction sends the batch, swallows Timeout and fails on
\* any other error; a second construction, one that finds the table and the
\* chain of the first, succeeds and leaves the same table and chain.
C17_AsStated ==
    [][ /\ BatchDecides
        /\ (Built /\ Batched(log') /\ TableAndChain \subseteq tables) =>
              /\ main' = "run"
              /\ tables' = tables ]_vars

\* C17 amended: construction sends the batch, swallows Timeout and fails on
\* any other error; a second construction, one that finds the table and the
\* chain of the first, succeeds unless its batch fails with an error other
\* than Timeout, and whether it succeeds or fails it leaves the same table
\* and chain.
C17_ConstructionBatch ==
    [][ /\ BatchDecides
        /\ (Built /\ Batched(log') /\ TableAndChain \subseteq tables) =>
              /\ main' = "run" <=> log'[1].result \in {"ok", "Timeout"}
              /\ tables' = tables ]_vars

\* C17 witness: a second construction, after a run that installed a rule, whose
\* batch timed out: it succeeded with an empty registry over the table and
\* chain of the first
C17_Witness ==
    /\ main = "run"
    /\ Batched(log) /\ log[1].result = "Timeout"
    /\ fw_rules = Empty
    /\ next_handle > 1
    /\ TableAndChain \subseteq tables
\* the `delete table` commands of table t among the commands of l
TableDeletes(l, t) == { i \in Events(l, {"delete table"}) : l[i].what = t }
\* main has returned after the engine loop had exited
ShutDown == main \in {"done", "failed"} /\ pc = "exited"

\* C18: the shutdown runs only after the engine loop has exited and in this
\* order: fw.cleanup(), which deletes the controller's table, then the
\* `delete table` of the monitor table, then executor.cleanup(), which drains
\* the pool; and the pool is drained in every shutdown: main never returns
\* after the loop has exited with the pool still open.
C18_ShutdownDrains ==
    /\ [][ /\ (main # "cleanup" /\ main' = "cleanup") => (main = "run" /\ pc = "exited")
           /\ (main # "delete" /\ main' = "delete") =>
                 (main = "cleanup" /\ TableDeletes(log', "traffic_filter") # {})
           /\ (main # "drain" /\ main' = "drain") =>
                 (main = "delete" /\ TableDeletes(log', "traffic_monitor") # {})
           /\ TableDeletes(log', "traffic_filter") # {} => main = "cleanup"
           /\ TableDeletes(log', "traffic_monitor") # {} => main = "delete"
           /\ (pool = "open" /\ pool' = "drained") => main = "drain" ]_vars
    /\ [](ShutDown => pool = "drained")
\* C19: every `add rule` command, whichever of ban, infinity_ban, limit,
\* infinity_limit and batch_ban sends it, matches `saddr` when the hook is
\* Input and `daddr` when it is Output, and carries the prefix `ip` for an IPv4
\* address and `ip6` for an IPv6 address.
C19_AddRuleShape ==
    [][ \A i \in Events(log', {"add rule"}) :
          /\ log'[i].dir = (IF hook = "Input" THEN "saddr" ELSE "daddr")
          /\ log'[i].ver = (IF log'[i].ip \in V6 THEN "ip6" ELSE "ip") ]_vars
\* the rules whose threshold the snapshot of ip exceeds, the rules that exclude
\* ip left out
Exceeded(ip) ==
    { i \in 1..Len(rules) :
        /\ ip \notin rules[i].exclude
        /\ avg_bps(entries[ip], rules[i].window_secs) > rules[i].threshold_bps }
\* the call is the one the action asks for
CallFor(ev, ip, action) ==
    /\ ev.ip = ip
    /\ ev.seconds = action.seconds
    /\ IF action.kind = "Ban" THEN ev.op = "ban"
       ELSE ev.op = "limit" /\ ev.kbps = action.kbps /\ ev.burst = action.burst
InstallCalls(l) == Events(l, {"ban", "limit"})

\* C20: the task of a non-excluded address calls fw.ban / fw.limit for a rule
\* exactly when the average of the rule's window is strictly greater than its
\* threshold: every call of the task is the one a rule with an exceeded
\* threshold asks for, a task that ran to its end made one call for each such
\* rule, a task cut short by an error made no more than that, and a task in
\* which no average exceeds its threshold, averages equal to the threshold
\* included, makes no call.
C20_StrictThreshold ==
    [][ \A ip \in IPs : TaskOf(log', ip) =>
          /\ \A j \in InstallCalls(log') :
                \E i \in Exceeded(ip) : CallFor(log'[j], ip, rules[i].action)
          /\ Cardinality(InstallCalls(log')) <= Cardinality(Exceeded(ip))
          /\ ~Failed(log') =>
                /\ Cardinality(InstallCalls(log')) = Cardinality(Exceeded(ip))
                /\ \A i \in Exceeded(ip) :
                      \E j \in InstallCalls(log') : CallFor(log'[j], ip, rules[i].action) ]_vars

\* C20 witness: the task of address 1 found the average of two samples, 5 / 2
\* truncated, equal to the threshold of the rule, and made no call
C20_Witness ==
    /\ TaskOf(log, 1)
    /\ Len(rules) = 1
    /\ windows[1] # Absent
    /\ take_sum(windows[1].buffer, window_start(windows[1].pos, Len(windows[1].buffer), 2), 2) = 5
    /\ rules[1].threshold_bps = 5 \div 2
    /\ InstallCalls(log) = {}
    /\ now > 0
\* the window has the shape it was built with
WellFormed(win) ==
    /\ Len(win.buffer) = 60
    /\ win.pos \in 0..59
\* the step just taken was the snapshot phase of check_and_apply
Snapshot(l) == Len(l) = 1 /\ l[1].op = "check_and_apply"

\* C21: every window has a buffer of 60 slots and 0 <= pos < 60, in the map and
\* in the snapshot; in the snapshot phase the window of an address in the
\* counter map whose last_ts is at least one whole second old moves pos by
\* one modulo 60, however many seconds have passed, writes the current sample
\* of the hook's direction into the new slot and nowhere else, and sets
\* last_ts to now; one whose last_ts is less than a second old is unchanged;
\* no other step touches a window.
C21_WindowAdvance ==
    /\ [](\A ip \in IPs :
            /\ windows[ip] # Absent => WellFormed(windows[ip])
            /\ entries[ip] # Absent => WellFormed(entries[ip]))
    /\ [][ \A ip \in IPs :
             IF Snapshot(log') /\ stats[ip] # Absent /\ windows[ip] # Absent
             THEN IF (now - windows[ip].last_ts) \div Res >= 1
                  THEN /\ windows'[ip].pos = (windows[ip].pos + 1) % 60
                       /\ windows'[ip].buffer =
                            [windows[ip].buffer EXCEPT ![windows'[ip].pos + 1] =
                               IF hook = "Input" THEN stats[ip].rx_delta
                               ELSE stats[ip].tx_delta]
                       /\ windows'[ip].last_ts = now
                  ELSE windows'[ip] = windows[ip]
             ELSE windows[ip] # Absent => windows'[ip] = windows[ip] ]_vars

\* C21 witness: a window that has moved from the last slot to slot 0 and on to
\* slot 1 was met by a tick half a second after its last move and left as it
\* was
C21_Witness ==
    /\ Snapshot(log)
    /\ stats[1] # Absent
    /\ windows[1] # Absent
    /\ windows[1].pos = 1
    /\ windows[1].buffer[MAX_WINDOW_BUFFER] = 5
    /\ windows[1].last_ts = now - 1
    /\ entries[1] = windows[1]
\* the RateLimit entries of ip with the rate and the duration of the call ev
\* that are within that duration of their creation
SameLimit(ev) ==
    { id \in Keys(fw_rules) :
        /\ fw_rules[id].ip = ev.ip
        /\ fw_rules[id].rule_type.kind = "RateLimit"
        /\ fw_rules[id].rule_type.kbps = ev.kbps
        /\ fw_rules[id].rule_type.seconds = ev.seconds
        /\ fw_rules[id].created_at + ev.seconds * Res > now }
TimedLimit(l) == Len(l) > 0 /\ l[1].op = "limit" /\ l[1].seconds # None

\* what limit(ip, kbps, burst, Some(s)) does when an entry with the same rate
\* and duration is running: whatever the burst, it returns the id of such an
\* entry and sends nothing; and what it sends otherwise: one `add rule` with
\* the rate and the burst of the call
LimitKeyed ==
    TimedLimit(log') =>
       IF SameLimit(log'[1]) # {}
       THEN /\ Events(log', {"add rule"}) = {}
            /\ Last(log').ok /\ Last(log').id \in SameLimit(log'[1])
            /\ UNCHANGED registry
       ELSE /\ Cardinality(Events(log', {"add rule"})) = 1
            /\ \A i \in Events(log', {"add rule"}) :
                  /\ log'[i].ip = log'[1].ip /\ log'[i].kbps = log'[1].kbps
                  /\ log'[i].burst = IF log'[1].burst # None THEN log'[1].burst
                                     ELSE Min(log'[1].kbps, 1024) \div 10

\* C22 as stated: suppression is keyed on address, rate and duration and not on
\* burst; with another rate or another duration a new rule is installed.
C22_AsStated ==
    [][ /\ LimitKeyed
        /\ (TimedLimit(log') /\ SameLimit(log'[1]) = {}) =>
              /\ Last(log').ok
              /\ Cardinality(kernel' \ kernel) = 1
              /\ fw_rules'[Last(log').id].handle \in kernel' \ kernel ]_vars

\* C22 amended: the same, the new rule being installed when the executor
\* accepts the `add rule` and prints its handle; otherwise the call returns
\* an error and registers nothing.
C22_LimitKeyedOnRateAndSeconds ==
    [][ /\ LimitKeyed
        /\ (TimedLimit(log') /\ SameLimit(log'[1]) = {}) =>
              IF Accepted(log')
              THEN /\ Last(log').ok
                   /\ Cardinality(kernel' \ kernel) = 1
                   /\ fw_rules'[Last(log').id].handle \in kernel' \ kernel
                   /\ fw_rules'[Last(log').id].rule_type.kbps = log'[1].kbps
                   /\ fw_rules'[Last(log').id].rule_type.seconds = log'[1].seconds
              ELSE /\ ~Last(log').ok
                   /\ fw_rules' = fw_rules ]_vars

\* C22 witness: a limit with burst 7 found the running entry of the same rate
\* and duration, installed with the default burst, and returned its id, while
\* an entry of the same rate and another duration is registered beside it
C22_Witness ==
    /\ Len(log) = 2
    /\ log[1].op = "limit" /\ log[1].burst = 7 /\ log[1].seconds # None
    /\ log[2].op = "ret" /\ log[2].ok
    /\ log[2].id \in Keys(fw_rules)
    /\ fw_rules[log[2].id].rule_type.burst # 7
    /\ fw_rules[log[2].id].rule_type.kbps = log[1].kbps
    /\ \E id \in Keys(fw_rules) :
          /\ fw_rules[id].rule_type.kbps = log[1].kbps
          /\ fw_rules[id].rule_type.seconds # log[1].seconds
\* C23: a flush of an empty registry sends nothing and returns 0.  A flush of
\* a registry that holds entries sends one `flush chain` and nothing else;
\* when the command is accepted the registry is left empty and the call
\* returns the number of entries the registry held when it was called; when
\* the command fails the call returns the error and the registry is unchanged.
C23_Flush ==
    [][ (log' # << >> /\ log'[1].op = "flush") =>
          IF Keys(fw_rules) = {}
          THEN /\ Len(log') = 2
               /\ Last(log').ok /\ Last(log').id = Count(0)
               /\ UNCHANGED registry
          ELSE /\ Len(log') = 3
               /\ log'[2].op = "flush chain"
               /\ IF log'[2].ack
                  THEN /\ fw_rules' = Empty
                       /\ Last(log').ok
                       /\ Last(log').id = Count(Cardinality(Keys(fw_rules)))
                  ELSE /\ ~Last(log').ok
                       /\ UNCHANGED registry ]_vars

C23_Witness ==
    /\ Len(log) = 3
    /\ log[1].op = "flush"
    /\ Cardinality(Keys(log[1].rules)) = 2
    /\ log[2].op = "flush chain" /\ log[2].ack
    /\ log[3].op = "ret" /\ log[3].ok /\ log[3].id = Count(2)
    /\ fw_rules = Empty

\* C24: cleanup is idempotent: a call sends `delete table` of the controller's
\* table and leaves the registry empty, and a cleanup called again, when an
\* earlier one has deleted the table and emptied the registry, succeeds and
\* leaves the registry empty.
C24_CleanupIdempotent ==
    [][ (log' # << >> /\ log'[1].op = "cleanup") =>
          /\ log'[2].op = "delete table" /\ log'[2].what = "traffic_filter"
          /\ (\A i \in 2..(Len(log') - 1) : log'[i].ack) => fw_rules' = Empty
          /\ (log'[1].tables = {} /\ fw_rules = Empty) =>
                (Last(log').ok /\ fw_rules' = Empty) ]_vars

\* C25: control signals have priority over the timer: check_and_apply never
\* starts while a Pause or a Stop that has been sent waits in the channel.
C25_ControlBeforeTick ==
    [][ (log' = << [op |-> "check_and_apply"] >>) =>
          ~ \E i \in (received + 1)..Len(control_rx) :
                control_rx[i] \in {"Pause", "Stop"} ]_vars

\* C26: every handle stored in the registry is a handle the executor returned
\* for an `add rule`, whichever of ban, infinity_ban, limit, infinity_limit and
\* batch_ban installed the entry, so that it names a rule of the kernel.
C26_RegisteredHandles ==
    \A id \in Keys(fw_rules) :
        /\ fw_rules[id].handle \in 1..(next_handle - 1)
        /\ fw_rules[id].handle \in kernel

\* C27: a tick never deadlocks: no task of check_and_apply is ever stuck in a
\* lock of the per-address id map that another task holds across an await.
C27_TickNeverBlocks ==
    \A ip \in IPs :
        calls[ip].pc = "blocked" => Holders(calls[ip].shard) \ {ip} = {}

\* no call of the controller is under way
Quiescent == \A p \in Callers : calls[p] = Idle \/ calls[p].pc = "done"

\* C28: the registry is an exact record of the rules of the kernel: whenever
\* no call of the controller is under way, every rule of the kernel has exactly
\* one registry entry that holds its handle, and the handle of every entry
\* names a rule of the kernel.
C28_RegistryMatchesKernel ==
    Quiescent =>
      /\ \A h \in kernel :
            Cardinality({ id \in Keys(fw_rules) : fw_rules[id].handle = h }) = 1
      /\ \A id \in Keys(fw_rules) : fw_rules[id].handle \in kernel

\* the 60 slots of a buffer nothing has been written into
ZeroSlots == [i \in 1..60 |-> 0]

\* C29: on the tick an address is first observed its window is created with
\* 60 zero slots, pos = 0 and last_ts = now, and the sample of that tick is
\* not written; a later tick less than one whole second after the creation
\* leaves the window as it is, and the first later tick at least one whole
\* second after it writes its sample at slot 1, the first sample to enter the
\* window.
C29_FirstObservation ==
    [][ \A ip \in IPs :
          (Snapshot(log') /\ stats[ip] # Absent) =>
             IF windows[ip] = Absent
             THEN windows'[ip] = [buffer |-> ZeroSlots, pos |-> 0, last_ts |-> now]
             ELSE windows[ip].pos = 0 =>
                    /\ windows[ip].buffer = ZeroSlots
                    /\ IF (now - windows[ip].last_ts) \div Res >= 1
                       THEN windows'[ip] =
                              [buffer |-> [ZeroSlots EXCEPT ![2] =
                                             IF hook = "Input" THEN stats[ip].rx_delta
                                             ELSE stats[ip].tx_delta],
                               pos |-> 1, last_ts |-> now]
                       ELSE windows'[ip] = windows[ip] ]_vars

\* C29 witness: the first sample of address 1, 5 bytes, has just been written
\* at slot 1 of a window that held nothing
C29_Witness ==
    /\ Snapshot(log)
    /\ windows[1] # Absent
    /\ windows[1] = [buffer |-> [ZeroSlots EXCEPT ![2] = 5], pos |-> 1, last_ts |-> now]
    /\ stats[1] # Absent
    /\ stats[1].rx_delta = 5

\* the ids the engine gives to the bans of the scenario
TimedIds == { ban_id(ip, t) : ip \in IPs, t \in 0..(MaxTime + Seconds(1)) }
\* the entry of id is a timed one whose duration ends before the clock does
Expiring(id) ==
    /\ id \in Keys(fw_rules)
    /\ fw_rules[id].rule_type.seconds # None
    /\ fw_rules[id].created_at + Seconds(fw_rules[id].rule_type.seconds) < MaxTime

OkInstalls(l) ==
    { i \in Events(l, {"ret"}) :
        /\ l[i].ok
        /\ \E j \in InstallCalls(l) :
              /\ j < i
              /\ \A k \in Events(l, {"ban", "limit", "unblock"}) : k < i => k <= j }
\* the ids those calls returned, in the order of the calls
ReturnedIds(l) ==
    [n \in 1..Cardinality(OkInstalls(l)) |->
       l[CHOOSE i \in OkInstalls(l) :
           Cardinality({ j \in OkInstalls(l) : j <= i }) = n].id]

\* C31: the id list of an address is append-only: the task of the address
\* appends, in their order, the ids its ban and limit calls returned with Ok,
\* also an id that is in the list already because the controller found a
\* duplicate and installed nothing, and appends nothing else; the sweep and
\* its unblock calls remove nothing, and no other step changes a list.
C31_AppendOnly ==
    [][ \A ip \in IPs :
          IF TaskOf(log', ip)
          THEN handles'[ip] = handles[ip] \o ReturnedIds(log')
          ELSE handles'[ip] = handles[ip] ]_vars

\* C31 witness: a task of address 1 whose ban call was answered with the id of
\* the running ban, no command sent, has appended that id a second time
C31_Witness ==
    /\ TaskOf(log, 1)
    /\ Events(log, {"add rule"}) = {}
    /\ Cardinality(OkInstalls(log)) = 1
    /\ Len(handles[1]) = 2
    /\ handles[1][1] = handles[1][2]
    /\ Cardinality(Keys(fw_rules)) = 1

====
